---- MODULE Spec2Model ----
(***************************************************************************)
(* Model of the repair-log page (src/app/page.tsx): the session guard, the *)
(* manual entry handler, the CSV import normalizer, the period filter and  *)
(* the asynchronous requests they send to the record store.                *)
(*                                                                         *)
(* Text is modelled as a sequence of one-character strings, numbers as     *)
(* hundredths, instants as hours since 1970-01-01T00:00Z.                  *)
(***************************************************************************)
EXTENDS Integers, Sequences, FiniteSets, TLC

VARIABLES
    session,     \* what getSession() returned: unknown / none / present
    initPc,      \* position of the init effect: start / redirected / loading / ready
    route,       \* the view shown by the router: "home" or "login"
    loading,     \* useState(true)
    repairs,     \* useState([]): the displayed list
    form,        \* useState({...}): the manual entry form
    alerts,      \* messages shown with alert(), oldest first
    store,       \* the rows of the store's repairs table
    nextId,      \* next row id the store assigns
    net,         \* requests sent to the store and not yet consumed by their handler
    nextReq,     \* number of requests issued so far
    ops,         \* number of user-triggered handler invocations so far
    now,         \* the local calendar date read by new Date()
    tz,          \* the local time zone: hours ahead of UTC
    lastQuery,   \* id of the most recently issued list query (0: none)
    shownQuery,  \* id of the list query whose result is displayed (0: none)
    rowsRead,    \* number of CSV rows parsed so far
    lastCsv,     \* the rows of the most recently parsed CSV file
    csvPc        \* how the most recent CSV callback went: idle / threw / sent

vars == <<session, initPc, route, loading, repairs, form, alerts, store, nextId, net,
          nextReq, ops, now, tz, lastQuery, shownQuery,
          rowsRead, lastCsv, csvPc>>

----------------------------------------------------------------------------
(* Bounds of the model *)

\* user-triggered handler invocations in one behaviour
MaxOps == 2
\* rows of an uploaded CSV file
MaxRows == 2
\* calendar years the clock ranges over, from 2023 on
MaxYears == 2
\* submits of the manual entry study
MaxSubmits == 1
\* uploads of the import study
MaxImports == 1

----------------------------------------------------------------------------
(* Calendar arithmetic of the Date object *)

IsLeap(y) == (y % 4 = 0 /\ y % 100 # 0) \/ y % 400 = 0

\* days from 1970-01-01 to the civil date y-m-d, m in 1..12
DaysFromCivil(y, m, d) ==
    LET yy  == IF m <= 2 THEN y - 1 ELSE y
        era == yy \div 400
        yoe == yy - era * 400
        mp  == IF m > 2 THEN m - 3 ELSE m + 9
        doy == (153 * mp + 2) \div 5 + d - 1
        doe == yoe * 365 + yoe \div 4 - yoe \div 100 + doy
    IN  era * 146097 + doe - 719468

\* the civil date of day number z
CivilFromDays(z) ==
    LET zz  == z + 719468
        era == zz \div 146097
        doe == zz - era * 146097
        yoe == (doe - doe \div 1460 + doe \div 36524 - doe \div 146096) \div 365
        doy == doe - (365 * yoe + yoe \div 4 - yoe \div 100)
        mp  == (5 * doy + 2) \div 153
        d   == doy - (153 * mp + 2) \div 5 + 1
        m   == IF mp < 10 THEN mp + 3 ELSE mp - 9
        y   == yoe + era * 400 + (IF m <= 2 THEN 1 ELSE 0)
    IN  [y |-> y, m |-> m, d |-> d]

\* new Date(year, monthIndex, day) without the carry of day 0 into the month
\* before: the day is kept inside the month
NewDateNoCarry(year, monthIndex, day, zone) ==
    LET ym == year + monthIndex \div 12
        mn == monthIndex % 12
        dd == IF day < 1 THEN 1 ELSE day
    IN  [valid |-> TRUE,
         t     |-> (DaysFromCivil(ym, mn + 1, 1) + dd - 1) * 24 - zone]

\* new Date(year, monthIndex, day): local midnight, month and day overflow
\* carried into the year and the month; the result is an instant (hours, UTC)
NewDateYMD(year, monthIndex, day, zone) ==
    LET ym == year + monthIndex \div 12
        mn == monthIndex % 12
    IN  [valid |-> TRUE,
         t     |-> (DaysFromCivil(ym, mn + 1, 1) + day - 1) * 24 - zone]

InvalidDate == [valid |-> FALSE, t |-> 0]

\* the text of a timestamp: its UTC calendar fields
IsoText(t) ==
    LET c == CivilFromDays(t \div 24)
    IN  [y |-> c.y, m |-> c.m, d |-> c.d, h |-> t % 24]

\* the empty text in a date field
NoDate == [y |-> 0, m |-> 0, d |-> 0, h |-> 0]

\* Date.prototype.toISOString: throws a RangeError on an invalid date
ToISOString(date) ==
    IF date.valid THEN [threw |-> FALSE, text |-> IsoText(date.t)]
    ELSE [threw |-> TRUE, text |-> NoDate]

\* the instant a timestamp text denotes
InstantOf(text) == DaysFromCivil(text.y, text.m, text.d) * 24 + text.h

----------------------------------------------------------------------------
(* Text and numbers *)

Digits == <<"0", "1", "2", "3", "4", "5", "6", "7", "8", "9">>

IsDigit(c) == \E i \in 1..10 : Digits[i] = c

DigitValue(c) == (CHOOSE i \in 1..10 : Digits[i] = c) - 1

AllDigits(s) == \A i \in 1..Len(s) : IsDigit(s[i])

RECURSIVE DigitsValue(_)
DigitsValue(s) ==
    IF s = <<>> THEN 0
    ELSE DigitsValue(SubSeq(s, 1, Len(s) - 1)) * 10 + DigitValue(s[Len(s)])

Num(hundredths) == [nan |-> FALSE, v |-> hundredths]

NaN == [nan |-> TRUE, v |-> 0]

\* Number(text) on unsigned decimal text: "" is 0, digits with at most one
\* "." are that number (kept to two decimals, in hundredths), the rest is NaN
Number(s) ==
    LET dots == {i \in 1..Len(s) : s[i] = "."}
        dot  == IF dots = {} THEN Len(s) + 1 ELSE CHOOSE i \in dots : TRUE
        int  == SubSeq(s, 1, dot - 1)
        frac == SubSeq(s, dot + 1, Len(s))
        two  == SubSeq(frac \o <<"0", "0">>, 1, 2)
    IN  IF s = <<>> THEN Num(0)
        ELSE IF Cardinality(dots) > 1 \/ ~AllDigits(int) \/ ~AllDigits(frac)
                \/ (int = <<>> /\ frac = <<>>)
        THEN NaN
        ELSE Num(DigitsValue(int) * 100 + DigitsValue(two))

\* String.prototype.replace(c, ''): the first occurrence of c removed
RECURSIVE ReplaceFirst(_, _)
ReplaceFirst(s, c) ==
    IF s = <<>> THEN <<>>
    ELSE IF Head(s) = c THEN Tail(s)
    ELSE <<Head(s)>> \o ReplaceFirst(Tail(s), c)

\* new Date(text): a year-month-day text is that day's 00:00 UTC, any other
\* text (the empty one too) is an invalid date
DateParse(text) ==
    IF text.m \in 1..12 /\ text.d \in 1..31
    THEN [valid |-> TRUE, t |-> InstantOf(text)]
    ELSE InvalidDate

----------------------------------------------------------------------------
(* CSV import normalizer *)

\* !row[col]: the column is absent from the row, or its text is empty
Falsy(row, col) == col \notin DOMAIN row \/ row[col] = <<>>

\* new Date(row['Sale date'])
SaleDate(row) ==
    IF "Sale date" \in DOMAIN row THEN DateParse(row["Sale date"]) ELSE InvalidDate

NullRecord ==
    [listing_id |-> <<>>, item_name |-> <<>>, price |-> NaN, date_sold |-> NoDate,
     quantity |-> NaN, source |-> "none"]

\* the validity gate without its check of "Item title"
RowDiscardedNoTitle(row) == Falsy(row, "Order number") \/ Falsy(row, "Total price")

\* the validity gate of the map callback
RowDiscarded(row) ==
    Falsy(row, "Order number") \/ Falsy(row, "Item title") \/ Falsy(row, "Total price")

\* the map callback: null, a record, or the exception of toISOString
NormalizeRow(row) ==
    IF RowDiscarded(row) THEN [kind |-> "null", rec |-> NullRecord]
    ELSE IF ToISOString(SaleDate(row)).threw THEN [kind |-> "throw", rec |-> NullRecord]
    ELSE [kind |-> "row",
          rec  |-> [listing_id |-> row["Order number"],
                    item_name  |-> row["Item title"],
                    price      |-> Number(ReplaceFirst(row["Total price"], "$")),
                    date_sold  |-> ToISOString(SaleDate(row)).text,
                    quantity   |-> IF Falsy(row, "Quantity") THEN Num(100)
                                   ELSE Number(row["Quantity"]),
                    source     |-> "csv"]]

\* the rows normalized last to first
MapRowsReversed(rows) ==
    [i \in 1..Len(rows) |-> NormalizeRow(rows[Len(rows) + 1 - i])]

\* .map(...) over the parsed rows
MapRows(rows) == [i \in 1..Len(rows) |-> NormalizeRow(rows[i])]

\* .filter(Boolean): the nulls removed, the order kept
RECURSIVE FilterBoolean(_)
FilterBoolean(mapped) ==
    IF mapped = <<>> THEN <<>>
    ELSE IF Head(mapped).kind = "null" THEN FilterBoolean(Tail(mapped))
    ELSE <<Head(mapped).rec>> \o FilterBoolean(Tail(mapped))

\* whether the map callback throws on some row
MapThrows(rows) == \E i \in 1..Len(rows) : NormalizeRow(rows[i]).kind = "throw"

----------------------------------------------------------------------------
(* The record store: the repairs table behind supabase.from('repairs') *)

NoBound == [on |-> FALSE, text |-> NoDate]

Bound(text) == [on |-> TRUE, text |-> text]

AllRows == [gte |-> NoBound, lte |-> NoBound]

\* the table row a written record becomes; a column the writer leaves out
\* (notes, for the CSV path) takes the empty default
TableRow(id, rec) ==
    [id         |-> id,
     listing_id |-> rec.listing_id,
     item_name  |-> rec.item_name,
     price      |-> rec.price,
     date_sold  |-> rec.date_sold,
     quantity   |-> rec.quantity,
     notes      |-> IF "notes" \in DOMAIN rec THEN rec.notes ELSE <<>>,
     source     |-> rec.source]

\* a record the table's constraints accept on its own: date_sold is required
Acceptable(rec) == rec.date_sold # NoDate

\* insert of one record: the unique key on listing_id rejects a duplicate
StoreInsert(table, id, rec) ==
    IF ~Acceptable(rec)
    THEN [ok |-> FALSE, table |-> table, id |-> id, msg |-> "invalid input"]
    ELSE IF \E r \in table : r.listing_id = rec.listing_id
    THEN [ok |-> FALSE, table |-> table, id |-> id, msg |-> "duplicate key"]
    ELSE [ok |-> TRUE, table |-> table \cup {TableRow(id, rec)}, id |-> id + 1,
          msg |-> "none"]

\* one record of an upsert: with the conflict key on listing_id the row that
\* shares it takes the record's columns and keeps its id and notes; with a
\* key no record carries (id) nothing conflicts and the record is inserted
UpsertOne(acc, rec, key) ==
    LET hit == {r \in acc.table : key = "listing_id" /\ r.listing_id = rec.listing_id}
    IN  IF ~acc.ok THEN acc
        ELSE IF hit # {}
        THEN IF Acceptable(rec)
             THEN [acc EXCEPT !.table =
                      (acc.table \ hit) \cup
                      {[TableRow(r.id, rec) EXCEPT !.notes = r.notes] : r \in hit}]
             ELSE [acc EXCEPT !.ok = FALSE, !.msg = "invalid input"]
        ELSE StoreInsert(acc.table, acc.id, rec)

\* bulk upsert: the records applied in order, all or nothing
RECURSIVE UpsertAll(_, _, _)
UpsertAll(acc, rows, key) ==
    IF rows = <<>> THEN acc
    ELSE UpsertAll(UpsertOne(acc, Head(rows), key), Tail(rows), key)

StoreUpsert(table, id, rows, key) ==
    LET done == UpsertAll([ok |-> TRUE, table |-> table, id |-> id, msg |-> "none"],
                          rows, key)
    IN  IF done.ok THEN done
        ELSE [ok |-> FALSE, table |-> table, id |-> id, msg |-> done.msg]

InRange(row, query) ==
    /\ query.gte.on => InstantOf(row.date_sold) >= InstantOf(query.gte.text)
    /\ query.lte.on => InstantOf(row.date_sold) <= InstantOf(query.lte.text)

\* .order('date_sold', { ascending: false }); rows with equal dates in any order
OrderedDesc(list) ==
    \A i \in 1..Len(list) - 1 :
        InstantOf(list[i].date_sold) >= InstantOf(list[i + 1].date_sold)

Listings(rows) ==
    {list \in [1..Cardinality(rows) -> rows] :
        /\ \A r \in rows : \E i \in 1..Cardinality(rows) : list[i] = r
        /\ OrderedDesc(list)}

\* the possible results of a select with the query's bounds
StoreSelect(table, query) == Listings({r \in table : InRange(r, query)})

----------------------------------------------------------------------------
(* Requests in flight *)

\* a request of handler k: rows are the records written, query and order those
\* of a select, key the conflict key of an upsert; from is the handler's input
Request(id, op, k, rows, query, order, from, key) ==
    [id |-> id, op |-> op, k |-> k, rows |-> rows, query |-> query, order |-> order,
     from |-> from, key |-> key, state |-> "sent", ok |-> FALSE, data |-> <<>>,
     msg |-> "none"]

\* supabase.from('repairs').select('*') with the bounds,
\* .order('date_sold', { ascending: false })
SelectRequest(id, k, query, from) ==
    Request(id, "select", k, <<>>, query, "date_sold.desc", from, "none")

Sent == {r \in net : r.state = "sent"}

Answered(k) == {r \in net : r.state = "answered" /\ r.k = k}

\* the store fails a request (unreachable, refused, ...): nothing is written
StoreFails(r) ==
    /\ r \in Sent
    /\ net' = (net \ {r}) \cup {[r EXCEPT !.state = "answered", !.ok = FALSE,
                                          !.msg = "store error"]}
    /\ UNCHANGED <<session, initPc, route, loading, repairs, form, alerts, store, nextId,
                   nextReq, ops, now, tz, lastQuery, shownQuery, rowsRead,
                   lastCsv, csvPc>>

\* the store runs a select and answers with one of its orderings
StoreSelects(r) ==
    /\ r \in Sent
    /\ r.op = "select"
    /\ \E list \in StoreSelect(store, r.query) :
          net' = (net \ {r}) \cup {[r EXCEPT !.state = "answered", !.ok = TRUE,
                                             !.data = list]}
    /\ UNCHANGED <<session, initPc, route, loading, repairs, form, alerts, store, nextId,
                   nextReq, ops, now, tz, lastQuery, shownQuery, rowsRead,
                   lastCsv, csvPc>>

\* the outcome of a write request on a table
StoreRun(table, id, r) ==
    IF r.op = "insert" THEN StoreInsert(table, id, r.rows[1])
    ELSE StoreUpsert(table, id, r.rows, r.key)

\* the store runs an insert or an upsert and answers with its outcome
StoreWrites(r) ==
    /\ r \in Sent
    /\ r.op \in {"insert", "upsert"}
    /\ LET out == StoreRun(store, nextId, r)
       IN  /\ store' = out.table
           /\ nextId' = out.id
           /\ net' = (net \ {r}) \cup {[r EXCEPT !.state = "answered", !.ok = out.ok,
                                                  !.msg = out.msg]}
    /\ UNCHANGED <<session, initPc, route, loading, repairs, form, alerts, nextReq, ops, now,
                   tz, lastQuery, shownQuery, rowsRead,
                   lastCsv, csvPc>>

----------------------------------------------------------------------------
(* Session guard and initial load *)

DefaultForm ==
    [item_name |-> <<>>, listing_id |-> <<>>, price |-> <<>>, date_sold |-> NoDate,
     quantity |-> Num(100), notes |-> <<>>]

\* init without the return after router.push('/login'): the query is sent
InitNoSessionFallThrough ==
    /\ initPc = "start"
    /\ session' = "none"
    /\ initPc' = "loading"
    /\ route' = "login"
    /\ net' = net \cup {SelectRequest(nextReq + 1, "init", AllRows, <<>>)}
    /\ nextReq' = nextReq + 1
    /\ lastQuery' = nextReq + 1
    /\ UNCHANGED <<loading, repairs, form, alerts, store, nextId, ops, now, tz,
                   shownQuery, rowsRead, lastCsv, csvPc>>

\* getSession() returned no session: router.push('/login') and return
InitNoSession ==
    /\ initPc = "start"
    /\ session' = "none"
    /\ initPc' = "redirected"
    /\ route' = "login"
    /\ UNCHANGED <<loading, repairs, form, alerts, store, nextId, net, nextReq, ops,
                   now, tz, lastQuery, shownQuery, rowsRead,
                   lastCsv, csvPc>>

\* getSession() returned a session: the listing query is sent
InitSession ==
    /\ initPc = "start"
    /\ session' = "present"
    /\ initPc' = "loading"
    /\ net' = net \cup {SelectRequest(nextReq + 1, "init", AllRows, <<>>)}
    /\ nextReq' = nextReq + 1
    /\ lastQuery' = nextReq + 1
    /\ UNCHANGED <<route, loading, repairs, form, alerts, store, nextId, ops, now, tz,
                   shownQuery, rowsRead,
                   lastCsv, csvPc>>

\* the listing query of init answered: an error is logged, data is displayed
InitLoaded(r) ==
    /\ r \in Answered("init")
    /\ net' = net \ {r}
    /\ initPc' = "ready"
    /\ loading' = FALSE
    /\ IF r.ok THEN repairs' = r.data /\ shownQuery' = r.id
       ELSE UNCHANGED <<repairs, shownQuery>>
    /\ UNCHANGED <<session, route, form, alerts, store, nextId, nextReq, ops, now, tz,
                   lastQuery, rowsRead,
                   lastCsv, csvPc>>

\* the form, the file input and the filter buttons are rendered
Rendered == ~loading /\ route = "home"

----------------------------------------------------------------------------
(* Manual entry *)

\* onChange of a form input: setForm({ ...form, [field]: value })
SetForm(field, value) ==
    /\ Rendered
    /\ form[field] # value
    /\ form' = [form EXCEPT ![field] = value]
    /\ UNCHANGED <<session, initPc, route, loading, repairs, alerts, store, nextId, net,
                   nextReq, ops, now, tz, lastQuery, shownQuery, rowsRead,
                   lastCsv, csvPc>>

\* the record handleSubmit inserts
ManualRecord(f) == [f EXCEPT !.price = Number(f.price)] @@ [source |-> "manual"]

\* handleSubmit writing with an upsert on listing_id instead of an insert
handleSubmitUpsert ==
    /\ Rendered
    /\ ops' = ops + 1
    /\ net' = net \cup {Request(nextReq + 1, "upsert", "submit", <<ManualRecord(form)>>,
                                AllRows, "none", <<>>, "listing_id")}
    /\ nextReq' = nextReq + 1
    /\ UNCHANGED <<session, initPc, route, loading, repairs, form, alerts, store,
                   nextId, now, tz, lastQuery, shownQuery, rowsRead, lastCsv, csvPc>>

\* handleSubmit up to its await: the insert is sent
handleSubmit ==
    /\ Rendered
    /\ ops' = ops + 1
    /\ net' = net \cup {Request(nextReq + 1, "insert", "submit", <<ManualRecord(form)>>,
                                AllRows, "none", <<>>, "none")}
    /\ nextReq' = nextReq + 1
    /\ UNCHANGED <<session, initPc, route, loading, repairs, form, alerts, store, nextId, now,
                   tz, lastQuery, shownQuery, rowsRead,
                   lastCsv, csvPc>>

\* handleSubmit after its await, resetting the form before it looks at the error
SubmitDoneResetFirst(r) ==
    /\ r \in Answered("submit")
    /\ form' = DefaultForm
    /\ IF ~r.ok
       THEN /\ alerts' = Append(alerts, r.msg)
            /\ net' = net \ {r}
            /\ UNCHANGED <<nextReq, lastQuery>>
       ELSE /\ net' = (net \ {r}) \cup {SelectRequest(nextReq + 1, "refresh", AllRows, <<>>)}
            /\ nextReq' = nextReq + 1
            /\ lastQuery' = nextReq + 1
            /\ UNCHANGED alerts
    /\ UNCHANGED <<session, initPc, route, loading, repairs, store, nextId, ops, now,
                   tz, shownQuery, rowsRead, lastCsv, csvPc>>

\* handleSubmit after its await: alert and return on an error, else the form
\* is reset and refreshRepairs() sends its query
SubmitDone(r) ==
    /\ r \in Answered("submit")
    /\ IF ~r.ok
       THEN /\ alerts' = Append(alerts, r.msg)
            /\ net' = net \ {r}
            /\ UNCHANGED <<form, nextReq, lastQuery>>
       ELSE /\ form' = DefaultForm
            /\ net' = (net \ {r}) \cup {SelectRequest(nextReq + 1, "refresh", AllRows, <<>>)}
            /\ nextReq' = nextReq + 1
            /\ lastQuery' = nextReq + 1
            /\ UNCHANGED alerts
    /\ UNCHANGED <<session, initPc, route, loading, repairs, store, nextId, ops, now, tz,
                   shownQuery, rowsRead,
                   lastCsv, csvPc>>

----------------------------------------------------------------------------
(* CSV upload *)

\* an upsert left on the table's primary key
OnConflictId == "id"

\* the conflict key handleCSV names in its upsert
OnConflict == "listing_id"

\* the complete callback up to its await: the rows are normalized and, unless
\* the map threw, the upsert of the batch is sent
handleCSV(rows) ==
    /\ Rendered
    /\ ops' = ops + 1
    /\ lastCsv' = rows
    /\ rowsRead' = rowsRead + Len(rows)
    /\ IF MapThrows(rows)
       THEN /\ csvPc' = "threw"
            /\ UNCHANGED <<net, nextReq>>
       ELSE /\ csvPc' = "sent"
            /\ net' = net \cup {Request(nextReq + 1, "upsert", "csv",
                                        FilterBoolean(MapRows(rows)), AllRows, "none",
                                        rows, OnConflict)}
            /\ nextReq' = nextReq + 1
    /\ UNCHANGED <<session, initPc, route, loading, repairs, form, alerts, store, nextId, now,
                   tz, lastQuery, shownQuery>>

\* the complete callback after its await, refreshing the list whatever the outcome
CsvDoneRefreshAlways(r) ==
    /\ r \in Answered("csv")
    /\ alerts' = Append(alerts, IF r.ok THEN "CSV imported successfully!" ELSE r.msg)
    /\ net' = (net \ {r}) \cup {SelectRequest(nextReq + 1, "refresh", AllRows, <<>>)}
    /\ nextReq' = nextReq + 1
    /\ lastQuery' = nextReq + 1
    /\ UNCHANGED <<session, initPc, route, loading, repairs, form, store, nextId, ops,
                   now, tz, shownQuery, rowsRead, lastCsv, csvPc>>

\* the complete callback after its await
CsvDone(r) ==
    /\ r \in Answered("csv")
    /\ IF ~r.ok
       THEN /\ alerts' = Append(alerts, r.msg)
            /\ net' = net \ {r}
            /\ UNCHANGED <<nextReq, lastQuery>>
       ELSE /\ alerts' = Append(alerts, "CSV imported successfully!")
            /\ net' = (net \ {r}) \cup {SelectRequest(nextReq + 1, "refresh", AllRows, <<>>)}
            /\ nextReq' = nextReq + 1
            /\ lastQuery' = nextReq + 1
    /\ UNCHANGED <<session, initPc, route, loading, repairs, form, store, nextId, ops, now, tz,
                   shownQuery, rowsRead,
                   lastCsv, csvPc>>

----------------------------------------------------------------------------
(* Refresh and filters *)

\* refreshRepairs after its await: the data is displayed unless the query failed
RefreshDone(r) ==
    /\ r \in Answered("refresh")
    /\ net' = net \ {r}
    /\ IF r.ok THEN repairs' = r.data /\ shownQuery' = r.id
       ELSE UNCHANGED <<repairs, shownQuery>>
    /\ UNCHANGED <<session, initPc, route, loading, form, alerts, store, nextId, nextReq, ops,
                   now, tz, lastQuery, rowsRead,
                   lastCsv, csvPc>>

\* the bounds filterRepairs puts on date_sold; now.month is getMonth(), 0..11
FilterQuery(period, date, zone) ==
    LET thisMonth == IF period = "thisMonth"
                     THEN [AllRows EXCEPT !.gte =
                             Bound(ToISOString(NewDateYMD(date.year, date.month, 1, zone)).text)]
                     ELSE AllRows
        lastMonth == IF period = "lastMonth"
                     THEN [gte |-> Bound(ToISOString(
                                      NewDateYMD(date.year, date.month - 1, 1, zone)).text),
                           lte |-> Bound(ToISOString(
                                      NewDateYMD(date.year, date.month, 0, zone)).text)]
                     ELSE thisMonth
    IN  IF period = "thisYear"
        THEN [lastMonth EXCEPT !.gte =
                 Bound(ToISOString(NewDateYMD(date.year, 0, 1, zone)).text)]
        ELSE lastMonth

\* filterRepairs up to its await: the bounded query is sent
filterRepairs(period) ==
    /\ Rendered
    /\ ops' = ops + 1
    /\ net' = net \cup {SelectRequest(nextReq + 1, "filter", FilterQuery(period, now, tz),
                                      <<period>>)}
    /\ nextReq' = nextReq + 1
    /\ lastQuery' = nextReq + 1
    /\ UNCHANGED <<session, initPc, route, loading, repairs, form, alerts, store, nextId, now,
                   tz, shownQuery, rowsRead,
                   lastCsv, csvPc>>

\* filterRepairs after its await: setRepairs(data || [])
FilterDone(r) ==
    /\ r \in Answered("filter")
    /\ net' = net \ {r}
    /\ repairs' = IF r.ok THEN r.data ELSE <<>>
    /\ shownQuery' = r.id
    /\ UNCHANGED <<session, initPc, route, loading, form, alerts, store, nextId, nextReq, ops,
                   now, tz, lastQuery, rowsRead,
                   lastCsv, csvPc>>

----------------------------------------------------------------------------
(* Inputs *)

Day1 == [y |-> 2024, m |-> 1, d |-> 5, h |-> 0]

Day2 == [y |-> 2024, m |-> 2, d |-> 1, h |-> 0]

\* a Sale date text that is no date
NotADate == [y |-> 0, m |-> 13, d |-> 0, h |-> 0]

CsvRow(order, title, price, date, quantity) ==
    [c \in {"Order number", "Item title", "Total price", "Sale date", "Quantity"} |->
        CASE c = "Order number" -> order
          [] c = "Item title"   -> title
          [] c = "Total price"  -> price
          [] c = "Sale date"    -> date
          [] c = "Quantity"     -> quantity]

\* a row the tokenizer cut short: the columns after the cut are absent
ShortRow(row, cols) == [c \in cols |-> row[c]]

Widget   == CsvRow(<<"A">>, <<"W">>, <<"$", "1", "0", ".", "0", "0">>, Day1, <<"2">>)
Gadget   == CsvRow(<<"A">>, <<"G">>, <<"$", "2", "0">>, Day2, <<>>)
Gizmo    ==
    ShortRow(CsvRow(<<"B">>, <<"G">>, <<"4", "2", ".", "5", "0">>, Day2, <<>>),
             {"Order number", "Item title", "Total price", "Sale date"})
NoOrder  == CsvRow(<<>>, <<"W">>, <<"$", "5">>, Day1, <<"1">>)
NoTitle  == CsvRow(<<"B">>, <<>>, <<"$", "5">>, Day1, <<"1">>)
NoPrice  ==
    ShortRow(CsvRow(<<"B">>, <<"W">>, <<>>, NoDate, <<>>), {"Order number", "Item title"})
BadPrice == CsvRow(<<"B">>, <<"W">>, <<"1", ",", "0">>, Day1, <<"1">>)
BadDate  == CsvRow(<<"B">>, <<"W">>, <<"$", "5">>, NotADate, <<"1">>)

SampleRows == {Widget, Gadget, Gizmo, NoOrder, NoTitle, NoPrice, BadPrice, BadDate}

\* the parsed files of the import study: every file of at most MaxRows rows
CsvFiles == UNION {[1..n -> SampleRows] : n \in 0..MaxRows}

\* the parsed files of the whole-page study
FewCsvFiles == {<<Widget>>, <<Gadget>>}

FormValues(field) ==
    CASE field = "item_name"  -> {<<>>, <<"W">>}
      [] field = "listing_id" -> {<<>>, <<"A">>}
      [] field = "price"      -> {<<>>, <<"1", "9", ".", "9", "9">>}
      [] field = "date_sold"  -> {NoDate, Day2}
      [] field = "notes"      -> {<<>>, <<"n">>}

FormFields == {"item_name", "listing_id", "price", "date_sold", "notes"}

\* the fields the whole-page study edits: the ones the store's constraints read
KeyFields == {"listing_id", "date_sold"}

Periods == {"thisMonth", "lastMonth", "thisYear", "all"}

\* the periods of the whole-page study
FewPeriods == {"lastMonth", "thisYear"}

DaysInMonth(y, m) ==
    CASE m \in {1, 3, 5, 7, 8, 10, 12} -> 31
      [] m \in {4, 6, 9, 11}           -> 30
      [] m = 2                         -> IF IsLeap(y) THEN 29 ELSE 28

\* the dates the clock ranges over: the first, the 15th and the last day of
\* every month of MaxYears years
Clock ==
    {[year |-> y, month |-> m, day |-> d] :
        y \in 2023..(2022 + MaxYears), m \in 0..11, d \in 1..31} \cap
    {c \in [year : 2023..(2022 + MaxYears), month : 0..11, day : 1..31] :
        c.day \in {1, 15, DaysInMonth(c.year, c.month + 1)}}

Zones == {-1, 0, 1}

March15 == [year |-> 2024, month |-> 2, day |-> 15]

----------------------------------------------------------------------------
(* Specifications *)

Start(clock, zones) ==
    /\ session = "unknown"
    /\ initPc = "start"
    /\ route = "home"
    /\ loading = TRUE
    /\ repairs = <<>>
    /\ form = DefaultForm
    /\ alerts = <<>>
    /\ store = {}
    /\ nextId = 1
    /\ net = {}
    /\ nextReq = 0
    /\ ops = 0
    /\ now \in clock
    /\ tz \in zones
    /\ lastQuery = 0
    /\ shownQuery = 0
    /\ rowsRead = 0
    /\ lastCsv = <<>>
    /\ csvPc = "idle"

StoreAnswers ==
    \E r \in net : StoreFails(r) \/ StoreSelects(r) \/ StoreWrites(r)

Guard == InitNoSession \/ InitSession \/ (\E r \in net : InitLoaded(r))

\* the whole page
Init == Start({March15}, {0})

Next ==
    \/ Guard
    \/ StoreAnswers
    \/ \E field \in KeyFields : \E value \in FormValues(field) : SetForm(field, value)
    \/ ops < MaxOps /\ handleSubmit
    \/ \E r \in net : SubmitDone(r)
    \/ ops < MaxOps /\ \E rows \in FewCsvFiles : handleCSV(rows)
    \/ \E r \in net : CsvDone(r)
    \/ \E r \in net : RefreshDone(r)
    \/ ops < MaxOps /\ \E period \in FewPeriods : filterRepairs(period)
    \/ \E r \in net : FilterDone(r)

Spec == Init /\ [][Next]_vars

\* the import study: MaxImports files of the samples, MaxRows rows in all
InitCsv == Start({March15}, {0})

NextCsv ==
    \/ Guard
    \/ StoreAnswers
    \/ /\ ops < MaxImports
       /\ \E rows \in CsvFiles : rowsRead + Len(rows) <= MaxRows /\ handleCSV(rows)
    \/ \E r \in net : CsvDone(r)
    \/ \E r \in net : RefreshDone(r)

SpecCsv == InitCsv /\ [][NextCsv]_vars

\* the manual entry study: every field of the form, MaxSubmits submits
InitManual == Start({March15}, {0})

NextManual ==
    \/ Guard
    \/ StoreAnswers
    \/ \E field \in FormFields : \E value \in FormValues(field) : SetForm(field, value)
    \/ ops < MaxSubmits /\ handleSubmit
    \/ \E r \in net : SubmitDone(r)
    \/ \E r \in net : RefreshDone(r)

SpecManual == InitManual /\ [][NextManual]_vars

\* the filter study: any date and zone of the clock
InitFilter == Start(Clock, Zones)

NextFilter ==
    \/ Guard
    \/ StoreAnswers
    \/ ops < MaxOps /\ \E period \in Periods : filterRepairs(period)
    \/ \E r \in net : FilterDone(r)

SpecFilter == InitFilter /\ [][NextFilter]_vars

----------------------------------------------------------------------------
(* Properties of the CSV import *)

\* the field of a row is there and its text is not empty
Filled(row, col) == col \in DOMAIN row /\ Len(row[col]) > 0

Required(row) ==
    Filled(row, "Order number") /\ Filled(row, "Item title") /\ Filled(row, "Total price")

\* the indices of the rows of a file that carry the three required fields
RequiredRows(rows) == {i \in 1..Len(rows) : Required(rows[i])}

\* the request r as the store has answered it in the next state
AnsweredNext(r) ==
    {a \in net' : a.id = r.id /\ a.state = "answered" /\ a.msg # "store error"}

\* the handler of the answered request r ends in this step
Consumed(r) == \A a \in net' : a.id # r.id

\* C1: the batch handed to the upsert holds exactly the rows whose "Order
\* number", "Item title" and "Total price" are all non-empty, in their input
\* order; a row missing one of them is not in the batch and raises nothing
C1_ValidityGate ==
    /\ \A r \in net : r.op = "upsert" =>
          /\ Len(r.rows) = Cardinality(RequiredRows(r.from))
          /\ \A n \in 1..Len(r.rows) :
                \E i \in RequiredRows(r.from) :
                   /\ Cardinality({j \in RequiredRows(r.from) : j <= i}) = n
                   /\ r.rows[n].listing_id = r.from[i]["Order number"]
                   /\ r.rows[n].item_name = r.from[i]["Item title"]
    /\ csvPc = "threw" => RequiredRows(lastCsv) # {}

C1_Witness ==
    \E r \in net :
        /\ r.op = "upsert"
        /\ Len(r.from) = 2
        /\ Len(r.rows) = 1
        /\ ~Required(r.from[1])
        /\ r.rows[1].listing_id = <<"B">>

\* C2: a file with two valid rows of the same "Order number", imported into an
\* empty store, leaves exactly one record with that listing_id, and the record
\* carries the fields of the later row
C2_LaterRowWins ==
    [][\A r \in net :
          (r.op = "upsert" /\ r.state = "sent" /\ store = {}
              /\ \E a \in AnsweredNext(r) : a.ok) =>
          \A i, j \in RequiredRows(r.from) :
             (/\ i < j
              /\ r.from[i]["Order number"] = r.from[j]["Order number"]
              /\ \A k \in RequiredRows(r.from) :
                    k > j => r.from[k]["Order number"] # r.from[j]["Order number"]) =>
             /\ Cardinality({x \in store' :
                               x.listing_id = r.from[j]["Order number"]}) = 1
             /\ \A x \in store' :
                   x.listing_id = r.from[j]["Order number"] =>
                      /\ x.item_name = r.from[j]["Item title"]
                      /\ x.date_sold = r.from[j]["Sale date"]
                      /\ x.source = "csv"]_vars

C2_Witness ==
    /\ lastCsv = <<Widget, Gadget>>
    /\ Cardinality(store) = 1
    /\ \E x \in store : x.listing_id = <<"A">> /\ x.item_name = <<"G">>

\* C4: a row that passes the validity gate with a malformed "Total price" or an
\* unparseable "Sale date" is still in the batch, with a not-a-number price or
\* an invalid timestamp, and the upsert is still issued for the whole batch
C4_CoercionNotRejected ==
    /\ csvPc # "idle" => csvPc = "sent"
    /\ \A r \in net : r.op = "upsert" =>
          /\ Len(r.rows) = Cardinality(RequiredRows(r.from))
          /\ \A i \in RequiredRows(r.from) :
                r.from[i]["Total price"] = <<"1", ",", "0">> =>
                   \E n \in 1..Len(r.rows) :
                      /\ r.rows[n].price.nan
                      /\ r.rows[n].listing_id = r.from[i]["Order number"]

\* C5: on a store error for the upsert, handleCSV shows the error message and
\* sends no list query, so that import leaves the displayed list as it is; on
\* success it shows the success message and sends the query of the whole list
\* ordered by date_sold descending, whose data is then displayed
C5_ImportOutcome ==
    [][/\ \A r \in Answered("csv") :
             Consumed(r) =>
                IF r.ok
                THEN /\ alerts' = Append(alerts, "CSV imported successfully!")
                     /\ nextReq' = nextReq + 1
                     /\ \E q \in net' :
                           /\ q.id = nextReq'
                           /\ q.op = "select"
                           /\ q.state = "sent"
                           /\ q.query = [gte |-> NoBound, lte |-> NoBound]
                           /\ q.order = "date_sold.desc"
                           /\ net' = (net \ {r}) \cup {q}
                ELSE /\ alerts' = Append(alerts, r.msg)
                     /\ r.msg # "CSV imported successfully!"
                     /\ repairs' = repairs
                     /\ nextReq' = nextReq
                     /\ net' = net \ {r}
       /\ \A q \in Answered("refresh") :
             (Consumed(q) /\ q.ok) => repairs' = q.data /\ OrderedDesc(repairs')]_vars

C5_Witness ==
    /\ csvPc = "sent"
    /\ alerts = <<"store error">>
    /\ net = {}
    /\ lastQuery = 1

----------------------------------------------------------------------------
(* Properties of the store's records *)

\* the store runs the write request r in this step
Written(r) == r \in Sent /\ r.op \in {"insert", "upsert"} /\ AnsweredNext(r) # {}

UniqueListings(table) ==
    \A x, y \in table : x.listing_id = y.listing_id => x = y

\* the record of the table with the listing_id of rec carries rec's columns
Carries(table, rec) ==
    /\ Cardinality({x \in table : x.listing_id = rec.listing_id}) = 1
    /\ \A x \in table :
          x.listing_id = rec.listing_id =>
             /\ x.item_name = rec.item_name
             /\ x.price = rec.price
             /\ x.date_sold = rec.date_sold
             /\ x.quantity = rec.quantity
             /\ x.source = rec.source

\* the last record written is complete and its listing_id is in the table
Repeats(table, rows) ==
    /\ rows # <<>>
    /\ rows[Len(rows)].date_sold # NoDate
    /\ \E x \in table : x.listing_id = rows[Len(rows)].listing_id

\* C3 as claimed: no two records share a listing_id, and a write (manual or
\* CSV) of a listing_id already present succeeds and overwrites the record
\* that has it, adding none
C3_SecondWriteOverwrites ==
    /\ [](UniqueListings(store))
    /\ [][\A r \in net :
             (Written(r) /\ Repeats(store, r.rows)) =>
                /\ \E a \in AnsweredNext(r) : a.ok
                /\ Carries(store', r.rows[Len(r.rows)])
                /\ Cardinality(store') = Cardinality(store)]_vars

\* C3 as amended: no two records share a listing_id; a CSV upsert of a
\* listing_id already present overwrites the record that has it and adds none;
\* a manual insert of a listing_id already present is refused with an error
\* and leaves the table as it is
C3_UniqueListingId ==
    /\ [](UniqueListings(store))
    /\ [][\A r \in net :
             (Written(r) /\ Repeats(store, r.rows)) =>
                IF r.k = "csv"
                THEN /\ \E a \in AnsweredNext(r) : a.ok
                     /\ Carries(store', r.rows[Len(r.rows)])
                     /\ Cardinality(store') = Cardinality(store)
                ELSE /\ \E a \in AnsweredNext(r) : ~a.ok
                     /\ store' = store]_vars

C3_Witness ==
    /\ \E i \in 1..Len(alerts) : alerts[i] = "duplicate key"
    /\ \E x \in store : x.source = "csv" /\ x.listing_id = <<"A">>

\* C9: the CSV import is idempotent and the manual insert is not: once the
\* store has run the upsert of a file, running the same upsert again succeeds
\* and leaves the table as it is; once it has run the insert of a form,
\* running the same insert again fails or adds a record
C9_UpsertIdempotentInsertNot ==
    [][\A r \in net :
          (Written(r) /\ \E a \in AnsweredNext(r) : a.ok) =>
             LET again == StoreRun(store', nextId', r)
             IN  IF r.k = "csv"
                 THEN again.ok /\ again.table = store'
                 ELSE ~again.ok \/ again.table # store']_vars

C9_Witness ==
    /\ alerts = <<"CSV imported successfully!", "CSV imported successfully!">>
    /\ Cardinality(store) = 1
    /\ lastCsv = <<Gadget>>
    /\ \E x \in store : x.item_name = <<"G">>

----------------------------------------------------------------------------
(* Properties of the manual entry *)

\* C6: handleSubmit changes the form if and only if the insert succeeds: on
\* success the form is reset to its defaults and the list query is sent; on
\* failure the store's message is shown, the form stays and no query is sent
C6_SubmitOutcome ==
    [][\A r \in Answered("submit") :
          Consumed(r) =>
             IF r.ok
             THEN /\ form' = [item_name |-> <<>>, listing_id |-> <<>>, price |-> <<>>,
                              date_sold |-> NoDate, quantity |-> Num(100),
                              notes |-> <<>>]
                  /\ alerts' = alerts
                  /\ \E q \in net' :
                        /\ q.id = nextReq + 1
                        /\ q.op = "select"
                        /\ q.query = [gte |-> NoBound, lte |-> NoBound]
                        /\ q.order = "date_sold.desc"
                        /\ net' = (net \ {r}) \cup {q}
             ELSE /\ alerts' = Append(alerts, r.msg)
                  /\ form' = form
                  /\ nextReq' = nextReq
                  /\ net' = net \ {r}]_vars

C6_Witness ==
    /\ alerts = <<"invalid input">>
    /\ form.listing_id = <<"A">>
    /\ form.price = <<"1", "9", ".", "9", "9">>
    /\ net = {}

----------------------------------------------------------------------------
(* Properties of the session guard *)

\* C7: when the session lookup returns no session the view goes to the login
\* view and no store request is ever sent; a listing query is sent only after
\* a lookup that returned a session
C7_SessionGuard ==
    /\ session = "none" => route = "login" /\ nextReq = 0 /\ net = {} /\ repairs = <<>>
    /\ nextReq > 0 => session = "present"

C7_Witness == session = "none" /\ route = "login" /\ loading

----------------------------------------------------------------------------
(* Properties of the period filter *)

\* the local calendar fields of a timestamp text
LocalFields(text) == IsoText(InstantOf(text) + tz)

\* C8: the lastMonth query is bounded from 00:00 of the first day of the
\* previous calendar month to 00:00 of its last day, both inclusive, in
\* January too; on 2024-03-15 the bounds are 2024-02-01T00:00 and
\* 2024-02-29T00:00
C8_LastMonthBounds ==
    \A r \in net :
        (r.k = "filter" /\ r.from = <<"lastMonth">>) =>
           LET py == IF now.month = 0 THEN now.year - 1 ELSE now.year
               pm == IF now.month = 0 THEN 12 ELSE now.month
           IN  /\ r.query.gte.on
               /\ r.query.lte.on
               /\ LocalFields(r.query.gte.text) = [y |-> py, m |-> pm, d |-> 1, h |-> 0]
               /\ LocalFields(r.query.lte.text) =
                     [y |-> py, m |-> pm, d |-> DaysInMonth(py, pm), h |-> 0]
               /\ now = [year |-> 2024, month |-> 2, day |-> 15] =>
                     /\ LocalFields(r.query.gte.text) =
                           [y |-> 2024, m |-> 2, d |-> 1, h |-> 0]
                     /\ LocalFields(r.query.lte.text) =
                           [y |-> 2024, m |-> 2, d |-> 29, h |-> 0]

C8_Witness ==
    \E r \in net :
        /\ r.k = "filter"
        /\ r.from = <<"lastMonth">>
        /\ now.month = 0
        /\ tz = 1
        /\ r.query.gte.text = [y |-> now.year - 1, m |-> 11, d |-> 30, h |-> 23]

----------------------------------------------------------------------------
(* Properties of the displayed list *)

\* C10: the answer to an earlier list query never replaces the displayed
\* result of a later one
C10_NoStaleOverwrite == [][shownQuery' >= shownQuery]_vars

====
